---- MODULE Spec2Model ----
(***************************************************************************)
(* Model of the bill-split backend (backend/app/routers/bills.py).         *)
(*                                                                         *)
(* The store (Supabase) is modelled as four tables queried by equality     *)
(* filters: bills, bill_items, participants, item_claims.  Every request   *)
(* handler is one action that reads its inputs, performs every table      *)
(* write the handler performs, and leaves its HTTP response in resp.       *)
(* update_claims and parse_bill are also given store call by store call,   *)
(* for the behaviours in which requests overlap or a store call fails.     *)
(*                                                                         *)
(* Money is held in integer cents; the handler's unrounded float          *)
(* quotients are held exactly, in units of 1/Den of a cent.                *)
(***************************************************************************)
EXTENDS Integers, Sequences, FiniteSets, Bags, TLC

VARIABLES
    bills,         \* table bills: id -> row
    bill_items,    \* table bill_items: id -> row
    item_seq,      \* number of item ids generated so far (uuid4 never repeats)
    participants,  \* table participants: id -> row
    item_claims,   \* table item_claims: bag of rows [item_id, participant_id]
    resp,          \* the response of the last request
    calls          \* requests that run store call by store call: id -> position

vars == <<bills, bill_items, item_seq, participants, item_claims, resp, calls>>

-----------------------------------------------------------------------------
(* Bounds of the model *)

MaxItems == 1          \* item ids generated in a behaviour
MaxParticipants == 2   \* participant rows in a behaviour of Spec
MaxClaimLen == 2       \* length of the item_ids list of one claims request

(* Value domains the requests draw from *)

None == <<>>
Some(x) == <<x>>

BillIds == {1}
ParticipantIds == {1, 2, 3}
CreatorTokens == {"creator-1"}
RandomShareTokens == {"random-1"}
SlugifiedVenues == {"", "joes-pizza-grill"}   \* values slugify(venue) returns
ShortIds == {"ab12"}
ItemInputs == {[name |-> "Pizza", price |-> 2000], [name |-> "Salad", price |-> 1001]}
TotalsInputs == {[subtotal |-> None, tax |-> None, tip |-> None],
                 [subtotal |-> Some(3001), tax |-> Some(300), tip |-> Some(501)]}
HandleInputs == {[venmo_handle |-> Some("@amy"), zelle_handle |-> None, cashapp_handle |-> None]}
NameInputs == {"", "amy", "Bob"}

NoHandles == [venmo_handle |-> None, zelle_handle |-> None, cashapp_handle |-> None]
NoTotals == [subtotal |-> None, tax |-> None, tip |-> None]

-----------------------------------------------------------------------------
(* Token issuer.  secrets.token_urlsafe(32) and uuid4 are modelled as the   *)
(* fresh value that belongs to the new row.                                 *)

generate_token_creator(id) == "creator-" \o ToString(id)
generate_token_share(id) == "random-" \o ToString(id)

(* f"{slug}-{short_id}" *)
NewShareToken(slug, short_id) == slug \o "-" \o short_id

(* slug = slugify(venue) or "bill" *)
SlugOrBill(slugified) == IF slugified = "" THEN "bill" ELSE slugified

ShareTokens ==
    RandomShareTokens \cup
    {NewShareToken(SlugOrBill(s), k) : s \in SlugifiedVenues, k \in ShortIds}

-----------------------------------------------------------------------------
(* Store queries *)

\* supabase.table("bills").select("*").eq("creator_token", t)
BillsByCreatorToken(t) == {b \in DOMAIN bills : bills[b].creator_token = t}

\* supabase.table("bills").select("*").eq("share_token", t)
BillsByShareToken(t) == {b \in DOMAIN bills : bills[b].share_token = t}

\* supabase.table("bill_items").select("*").eq("bill_id", b)
ItemsOfBill(b) == {i \in DOMAIN bill_items : bill_items[i].bill_id = b}

\* supabase.table("participants").select("*").eq("bill_id", b)
ParticipantsOfBill(b) == {p \in DOMAIN participants : participants[p].bill_id = b}

\* ...eq("participant_token", t).eq("bill_id", b); the token of a row is its id
ParticipantsByToken(t, b) == {p \in ParticipantsOfBill(b) : p = t}

\* a response: the handler, the HTTP status, the bill row the handler resolved
\* (0 when none), the request's inputs and the response body
Response(op, code, bill, arg, body) ==
    [op |-> op, code |-> code, bill |-> bill, arg |-> arg, body |-> body]

Extend(f, k, v) == [x \in DOMAIN f \cup {k} |-> IF x = k THEN v ELSE f[x]]

-----------------------------------------------------------------------------
Init ==
    /\ bills = <<>>
    /\ bill_items = <<>>
    /\ item_seq = 0
    /\ participants = <<>>
    /\ item_claims = EmptyBag
    /\ resp = Response("none", 0, 0, <<>>, <<>>)
    /\ calls = <<>>

-----------------------------------------------------------------------------
(* POST /bills/upload *)
upload_bill(is_image) ==
    IF ~is_image
    THEN /\ resp' = Response("upload_bill", 400, 0, <<>>, <<>>)
         /\ UNCHANGED <<bills, bill_items, item_seq, participants, item_claims, calls>>
    ELSE LET bill_id == Cardinality(DOMAIN bills) + 1
             row == [creator_token |-> generate_token_creator(bill_id),
                     share_token |-> generate_token_share(bill_id),
                     status |-> "editing",
                     totals |-> NoTotals,
                     handles |-> NoHandles]
         IN /\ bills' = Extend(bills, bill_id, row)
            /\ resp' = Response("upload_bill", 200, bill_id, <<>>, <<>>)
            /\ UNCHANGED <<bill_items, item_seq, participants, item_claims, calls>>

(* POST /bills/creator/{creator_token}/confirm *)
confirm_bill(creator_token) ==
    IF BillsByCreatorToken(creator_token) = {}
    THEN /\ resp' = Response("confirm_bill", 404, 0, <<creator_token>>, <<>>)
         /\ UNCHANGED <<bills, bill_items, item_seq, participants, item_claims, calls>>
    ELSE \E b \in BillsByCreatorToken(creator_token) :
         LET participant_id == Cardinality(DOMAIN participants) + 1
             row == [bill_id |-> b, status |-> "selecting",
                     is_creator |-> TRUE, name |-> None]
         IN /\ bills' = [bills EXCEPT ![b].status = "active"]
            /\ participants' = Extend(participants, participant_id, row)
            /\ resp' = Response("confirm_bill", 200, b, <<creator_token>>, <<participant_id>>)
            /\ UNCHANGED <<bill_items, item_seq, item_claims, calls>>

(* POST /bills/creator/{creator_token}/complete *)
complete_bill(creator_token, request) ==
    IF BillsByCreatorToken(creator_token) = {}
    THEN /\ resp' = Response("complete_bill", 404, 0, <<creator_token>>, <<>>)
         /\ UNCHANGED <<bills, bill_items, item_seq, participants, item_claims, calls>>
    ELSE \E b \in BillsByCreatorToken(creator_token) :
            /\ bills' = [bills EXCEPT ![b].status = "complete", ![b].handles = request]
            /\ resp' = Response("complete_bill", 200, b, <<creator_token>>, <<>>)
            /\ UNCHANGED <<bill_items, item_seq, participants, item_claims, calls>>

\* ParsedBillResponse(items, subtotal, tax, tip, share_token)
ParsedBillResponse(items, totals, share_token) ==
    [items |-> items, totals |-> totals, share_token |-> share_token]

\* parse_bill without the check that the model's text is JSON
parse_bill_json_unchecked(creator_token, json_ok, parsed, short_id) ==
    LET arg == <<creator_token, json_ok>> IN
    IF BillsByCreatorToken(creator_token) = {}
    THEN /\ resp' = Response("parse_bill", 404, 0, arg, <<>>)
         /\ UNCHANGED <<bills, bill_items, item_seq, participants, item_claims, calls>>
    ELSE \E b \in BillsByCreatorToken(creator_token) :
         LET n == Len(parsed.items)
             new_ids == (item_seq + 1) .. (item_seq + n)
             new_share_token == NewShareToken(SlugOrBill(parsed.venue), short_id)
         IN /\ bill_items' =
                  [i \in DOMAIN bill_items \cup new_ids |->
                      IF i \in new_ids
                      THEN [bill_id |-> b,
                            name |-> parsed.items[i - item_seq].name,
                            price |-> parsed.items[i - item_seq].price]
                      ELSE bill_items[i]]
            /\ item_seq' = item_seq + n
            /\ bills' = [bills EXCEPT ![b].totals = parsed.totals,
                                      ![b].share_token = new_share_token]
            /\ resp' = Response("parse_bill", 200, b, arg,
                                <<ParsedBillResponse(
                                     [j \in 1..n |-> [id |-> item_seq + j,
                                                      name |-> parsed.items[j].name,
                                                      price |-> parsed.items[j].price]],
                                     parsed.totals, new_share_token)>>)
            /\ UNCHANGED <<participants, item_claims, calls>>

\* parse_bill that first removes the items the bill has
parse_bill_replacing(creator_token, json_ok, parsed, short_id) ==
    LET arg == <<creator_token, json_ok>> IN
    IF BillsByCreatorToken(creator_token) = {}
    THEN /\ resp' = Response("parse_bill", 404, 0, arg, <<>>)
         /\ UNCHANGED <<bills, bill_items, item_seq, participants, item_claims, calls>>
    ELSE \E b \in BillsByCreatorToken(creator_token) :
         IF ~json_ok
         THEN /\ resp' = Response("parse_bill", 500, b, arg, <<>>)
              /\ UNCHANGED <<bills, bill_items, item_seq, participants, item_claims, calls>>
         ELSE LET n == Len(parsed.items)
                  new_ids == (item_seq + 1) .. (item_seq + n)
                  new_share_token == NewShareToken(SlugOrBill(parsed.venue), short_id)
              IN /\ bill_items' =
                       [i \in (DOMAIN bill_items \ ItemsOfBill(b)) \cup new_ids |->
                           IF i \in new_ids
                           THEN [bill_id |-> b,
                                 name |-> parsed.items[i - item_seq].name,
                                 price |-> parsed.items[i - item_seq].price]
                           ELSE bill_items[i]]
                 /\ item_seq' = item_seq + n
                 /\ bills' = [bills EXCEPT ![b].totals = parsed.totals,
                                           ![b].share_token = new_share_token]
                 /\ resp' = Response("parse_bill", 200, b, arg,
                                     <<ParsedBillResponse(
                                          [j \in 1..n |-> [id |-> item_seq + j,
                                                           name |-> parsed.items[j].name,
                                                           price |-> parsed.items[j].price]],
                                          parsed.totals, new_share_token)>>)
                 /\ UNCHANGED <<participants, item_claims, calls>>

(* POST /bills/creator/{creator_token}/parse.  json_ok is whether the vision   *)
(* model's text parsed as JSON; parsed is the decoded object, with the venue   *)
(* already passed through slugify.  The 400 answer for a bill without an      *)
(* image_url does not occur: upload_bill stores one with every bill.          *)
parse_bill(creator_token, json_ok, parsed, short_id) ==
    LET arg == <<creator_token, json_ok>> IN
    IF BillsByCreatorToken(creator_token) = {}
    THEN /\ resp' = Response("parse_bill", 404, 0, arg, <<>>)
         /\ UNCHANGED <<bills, bill_items, item_seq, participants, item_claims, calls>>
    ELSE \E b \in BillsByCreatorToken(creator_token) :
         IF ~json_ok
         THEN /\ resp' = Response("parse_bill", 500, b, arg, <<>>)
              /\ UNCHANGED <<bills, bill_items, item_seq, participants, item_claims, calls>>
         ELSE LET n == Len(parsed.items)
                  new_ids == (item_seq + 1) .. (item_seq + n)
                  new_share_token == NewShareToken(SlugOrBill(parsed.venue), short_id)
              IN /\ bill_items' =
                       [i \in DOMAIN bill_items \cup new_ids |->
                           IF i \in new_ids
                           THEN [bill_id |-> b,
                                 name |-> parsed.items[i - item_seq].name,
                                 price |-> parsed.items[i - item_seq].price]
                           ELSE bill_items[i]]
                 /\ item_seq' = item_seq + n
                 /\ bills' = [bills EXCEPT ![b].totals = parsed.totals,
                                           ![b].share_token = new_share_token]
                 /\ resp' = Response("parse_bill", 200, b, arg,
                                     <<ParsedBillResponse(
                                          [j \in 1..n |-> [id |-> item_seq + j,
                                                           name |-> parsed.items[j].name,
                                                           price |-> parsed.items[j].price]],
                                          parsed.totals, new_share_token)>>)
                 /\ UNCHANGED <<participants, item_claims, calls>>

\* update_item that looks the item up by its id alone
update_item_unscoped(creator_token, item_id, request) ==
    IF BillsByCreatorToken(creator_token) = {}
    THEN /\ resp' = Response("update_item", 404, 0, <<creator_token, item_id>>, <<>>)
         /\ UNCHANGED <<bills, bill_items, item_seq, participants, item_claims, calls>>
    ELSE \E b \in BillsByCreatorToken(creator_token) :
         IF item_id \notin DOMAIN bill_items
         THEN /\ resp' = Response("update_item", 404, b, <<creator_token, item_id>>, <<>>)
              /\ UNCHANGED <<bills, bill_items, item_seq, participants, item_claims, calls>>
         ELSE /\ bill_items' = [bill_items EXCEPT ![item_id].name = request.name,
                                                  ![item_id].price = request.price]
              /\ resp' = Response("update_item", 200, b, <<creator_token, item_id>>, <<>>)
              /\ UNCHANGED <<bills, item_seq, participants, item_claims, calls>>

(* PATCH /bills/creator/{creator_token}/items/{item_id} *)
update_item(creator_token, item_id, request) ==
    IF BillsByCreatorToken(creator_token) = {}
    THEN /\ resp' = Response("update_item", 404, 0, <<creator_token, item_id>>, <<>>)
         /\ UNCHANGED <<bills, bill_items, item_seq, participants, item_claims, calls>>
    ELSE \E b \in BillsByCreatorToken(creator_token) :
         IF item_id \notin ItemsOfBill(b)
         THEN /\ resp' = Response("update_item", 404, b, <<creator_token, item_id>>, <<>>)
              /\ UNCHANGED <<bills, bill_items, item_seq, participants, item_claims, calls>>
         ELSE /\ bill_items' = [bill_items EXCEPT ![item_id].name = request.name,
                                                  ![item_id].price = request.price]
              /\ resp' = Response("update_item", 200, b, <<creator_token, item_id>>, <<>>)
              /\ UNCHANGED <<bills, item_seq, participants, item_claims, calls>>

(* DELETE /bills/creator/{creator_token}/items/{item_id} *)
delete_item(creator_token, item_id) ==
    IF BillsByCreatorToken(creator_token) = {}
    THEN /\ resp' = Response("delete_item", 404, 0, <<creator_token, item_id>>, <<>>)
         /\ UNCHANGED <<bills, bill_items, item_seq, participants, item_claims, calls>>
    ELSE \E b \in BillsByCreatorToken(creator_token) :
         IF item_id \notin ItemsOfBill(b)
         THEN /\ resp' = Response("delete_item", 404, b, <<creator_token, item_id>>, <<>>)
              /\ UNCHANGED <<bills, bill_items, item_seq, participants, item_claims, calls>>
         ELSE /\ bill_items' = [i \in DOMAIN bill_items \ {item_id} |-> bill_items[i]]
              /\ resp' = Response("delete_item", 200, b, <<creator_token, item_id>>, <<>>)
              /\ UNCHANGED <<bills, item_seq, participants, item_claims, calls>>

(* PATCH /bills/creator/{creator_token}/totals *)
update_bill_totals(creator_token, request) ==
    IF BillsByCreatorToken(creator_token) = {}
    THEN /\ resp' = Response("update_bill_totals", 404, 0, <<creator_token>>, <<>>)
         /\ UNCHANGED <<bills, bill_items, item_seq, participants, item_claims, calls>>
    ELSE \E b \in BillsByCreatorToken(creator_token) :
            /\ bills' = [bills EXCEPT ![b].totals = request]
            /\ resp' = Response("update_bill_totals", 200, b, <<creator_token>>, <<>>)
            /\ UNCHANGED <<bill_items, item_seq, participants, item_claims, calls>>

-----------------------------------------------------------------------------
(* Rows of item_claims *)

Claim(item_id, participant_id) == [item_id |-> item_id, participant_id |-> participant_id]

\* [c for c in claims if c["item_id"] == item_id], as a number of rows
ClaimRowsOnItem(item_id) ==
    BagCardinality([c \in {d \in DOMAIN item_claims : d.item_id = item_id} |-> item_claims[c]])

\* number of rows with this participant and this item
ClaimRows(item_id, participant_id) ==
    IF Claim(item_id, participant_id) \in DOMAIN item_claims
    THEN item_claims[Claim(item_id, participant_id)]
    ELSE 0

\* a delete on item_claims without its filter on participant_id
DeleteClaimsOf_everyone(claims, p) == EmptyBag

\* supabase.table("item_claims").delete().eq("participant_id", p)
DeleteClaimsOf(claims, p) ==
    [c \in {d \in DOMAIN claims : d.participant_id # p} |-> claims[c]]

\* for item_id in request.item_ids: insert {item_id, participant_id}
RECURSIVE InsertClaims(_, _, _)
InsertClaims(claims, p, item_ids) ==
    IF item_ids = <<>>
    THEN claims
    ELSE InsertClaims(claims (+) SetToBag({Claim(Head(item_ids), p)}), p, Tail(item_ids))

\* update_claims' store steps without the delete
ReplaceClaims_keep_old(claims, p, item_ids) == InsertClaims(claims, p, item_ids)

\* the two store steps of update_claims
ReplaceClaims(claims, p, item_ids) == InsertClaims(DeleteClaimsOf(claims, p), p, item_ids)

-----------------------------------------------------------------------------
\* ParticipantBillResponse of bill b (claimed_by: the rows of each named
\* participant of the bill on the item)
ParticipantBillResponse(b) ==
    [id |-> b,
     share_token |-> bills[b].share_token,
     status |-> bills[b].status,
     totals |-> bills[b].totals,
     items |-> [i \in ItemsOfBill(b) |->
                  [name |-> bill_items[i].name,
                   price |-> bill_items[i].price,
                   claimed_by |->
                      [p \in {q \in ParticipantsOfBill(b) :
                                 /\ ClaimRows(i, q) > 0
                                 /\ participants[q].name \notin {None, Some("")}}
                        |-> ClaimRows(i, p)]]],
     participants |-> [p \in ParticipantsOfBill(b) |->
                         [name |-> participants[p].name,
                          status |-> participants[p].status]]]

\* get_bill_by_share_token without its status check
get_bill_by_share_token_ungated(share_token) ==
    /\ UNCHANGED <<bills, bill_items, item_seq, participants, item_claims, calls>>
    /\ IF BillsByShareToken(share_token) = {}
       THEN resp' = Response("get_bill_by_share_token", 404, 0, <<share_token>>, None)
       ELSE \E b \in BillsByShareToken(share_token) :
            resp' = Response("get_bill_by_share_token", 200, b, <<share_token>>,
                             Some(ParticipantBillResponse(b)))

(* GET /bills/share/{share_token} *)
get_bill_by_share_token(share_token) ==
    /\ UNCHANGED <<bills, bill_items, item_seq, participants, item_claims, calls>>
    /\ IF BillsByShareToken(share_token) = {}
       THEN resp' = Response("get_bill_by_share_token", 404, 0, <<share_token>>, None)
       ELSE \E b \in BillsByShareToken(share_token) :
            IF bills[b].status = "editing"
            THEN resp' = Response("get_bill_by_share_token", 403, b, <<share_token>>, None)
            ELSE resp' = Response("get_bill_by_share_token", 200, b, <<share_token>>,
                                  Some(ParticipantBillResponse(b)))

\* join_bill without its check of the bill's status
join_bill_ungated(share_token) ==
    IF BillsByShareToken(share_token) = {}
    THEN /\ resp' = Response("join_bill", 404, 0, <<share_token>>, <<>>)
         /\ UNCHANGED <<bills, bill_items, item_seq, participants, item_claims, calls>>
    ELSE \E b \in BillsByShareToken(share_token) :
         LET participant_id == Cardinality(DOMAIN participants) + 1
             row == [bill_id |-> b, status |-> "selecting",
                     is_creator |-> FALSE, name |-> None]
         IN /\ participants' = Extend(participants, participant_id, row)
            /\ resp' = Response("join_bill", 200, b, <<share_token>>, <<participant_id>>)
            /\ UNCHANGED <<bills, bill_items, item_seq, item_claims, calls>>

(* POST /bills/share/{share_token}/join *)
join_bill(share_token) ==
    IF BillsByShareToken(share_token) = {}
    THEN /\ resp' = Response("join_bill", 404, 0, <<share_token>>, <<>>)
         /\ UNCHANGED <<bills, bill_items, item_seq, participants, item_claims, calls>>
    ELSE \E b \in BillsByShareToken(share_token) :
         IF bills[b].status # "active"
         THEN /\ resp' = Response("join_bill", 403, b, <<share_token>>, <<>>)
              /\ UNCHANGED <<bills, bill_items, item_seq, participants, item_claims, calls>>
         ELSE LET participant_id == Cardinality(DOMAIN participants) + 1
                  row == [bill_id |-> b, status |-> "selecting",
                          is_creator |-> FALSE, name |-> None]
              IN /\ participants' = Extend(participants, participant_id, row)
                 /\ resp' = Response("join_bill", 200, b, <<share_token>>, <<participant_id>>)
                 /\ UNCHANGED <<bills, bill_items, item_seq, item_claims, calls>>

\* update_claims without its check of the participant's status
update_claims_ungated(share_token, participant_token, item_ids) ==
    LET arg == <<share_token, participant_token, item_ids>> IN
    IF BillsByShareToken(share_token) = {}
    THEN /\ resp' = Response("update_claims", 404, 0, arg, <<>>)
         /\ UNCHANGED <<bills, bill_items, item_seq, participants, item_claims, calls>>
    ELSE \E b \in BillsByShareToken(share_token) :
         IF ParticipantsByToken(participant_token, b) = {}
         THEN /\ resp' = Response("update_claims", 404, b, arg, <<>>)
              /\ UNCHANGED <<bills, bill_items, item_seq, participants, item_claims, calls>>
         ELSE \E p \in ParticipantsByToken(participant_token, b) :
                   /\ item_claims' = ReplaceClaims(item_claims, p, item_ids)
                   /\ resp' = Response("update_claims", 200, b, arg, <<Len(item_ids)>>)
                   /\ UNCHANGED <<bills, bill_items, item_seq, participants, calls>>

(* POST /bills/share/{share_token}/participant/{participant_token}/claims *)
update_claims(share_token, participant_token, item_ids) ==
    LET arg == <<share_token, participant_token, item_ids>> IN
    IF BillsByShareToken(share_token) = {}
    THEN /\ resp' = Response("update_claims", 404, 0, arg, <<>>)
         /\ UNCHANGED <<bills, bill_items, item_seq, participants, item_claims, calls>>
    ELSE \E b \in BillsByShareToken(share_token) :
         IF ParticipantsByToken(participant_token, b) = {}
         THEN /\ resp' = Response("update_claims", 404, b, arg, <<>>)
              /\ UNCHANGED <<bills, bill_items, item_seq, participants, item_claims, calls>>
         ELSE \E p \in ParticipantsByToken(participant_token, b) :
              IF participants[p].status = "done"
              THEN /\ resp' = Response("update_claims", 403, b, arg, <<>>)
                   /\ UNCHANGED <<bills, bill_items, item_seq, participants, item_claims, calls>>
              ELSE /\ item_claims' = ReplaceClaims(item_claims, p, item_ids)
                   /\ resp' = Response("update_claims", 200, b, arg, <<Len(item_ids)>>)
                   /\ UNCHANGED <<bills, bill_items, item_seq, participants, calls>>

(* POST /bills/share/{share_token}/participant/{participant_token}/submit *)
submit_participant(share_token, participant_token, name) ==
    LET arg == <<share_token, participant_token>> IN
    IF BillsByShareToken(share_token) = {}
    THEN /\ resp' = Response("submit_participant", 404, 0, arg, <<>>)
         /\ UNCHANGED <<bills, bill_items, item_seq, participants, item_claims, calls>>
    ELSE \E b \in BillsByShareToken(share_token) :
         IF ParticipantsByToken(participant_token, b) = {}
         THEN /\ resp' = Response("submit_participant", 404, b, arg, <<>>)
              /\ UNCHANGED <<bills, bill_items, item_seq, participants, item_claims, calls>>
         ELSE \E p \in ParticipantsByToken(participant_token, b) :
              /\ participants' = [participants EXCEPT ![p].name = Some(name),
                                                      ![p].status = "done"]
              /\ resp' = Response("submit_participant", 200, b, arg, <<name>>)
              /\ UNCHANGED <<bills, bill_items, item_seq, item_claims, calls>>

-----------------------------------------------------------------------------
(* update_claims, store call by store call.  Requests served by different    *)
(* workers share nothing but the store, so between two store calls of one    *)
(* request any store call of another request can run.  calls[k] holds the    *)
(* locals of request k: the participant row it fetched, the item_ids of the  *)
(* request, the ids its loop has still to insert (todo) and its position.    *)

CallIds == {1, 2}

\* lines 570-585: fetch the bill, fetch the participant, check its status
update_claims_fetch(k, share_token, participant_token, item_ids) ==
    LET arg == <<share_token, participant_token, item_ids>> IN
    /\ k \notin DOMAIN calls
    /\ UNCHANGED <<bills, bill_items, item_seq, participants, item_claims>>
    /\ IF BillsByShareToken(share_token) = {}
       THEN /\ resp' = Response("update_claims", 404, 0, arg, <<>>)
            /\ UNCHANGED calls
       ELSE \E b \in BillsByShareToken(share_token) :
            IF ParticipantsByToken(participant_token, b) = {}
            THEN /\ resp' = Response("update_claims", 404, b, arg, <<>>)
                 /\ UNCHANGED calls
            ELSE \E p \in ParticipantsByToken(participant_token, b) :
                 IF participants[p].status = "done"
                 THEN /\ resp' = Response("update_claims", 403, b, arg, <<>>)
                      /\ UNCHANGED calls
                 ELSE /\ calls' = Extend(calls, k,
                                         [op |-> "update_claims", pc |-> "delete",
                                          bill |-> b, participant |-> p, arg |-> arg,
                                          item_ids |-> item_ids, todo |-> item_ids])
                      /\ UNCHANGED resp

\* update_claims_delete that leaves the participant's rows in the table
update_claims_delete_skipped(k) ==
    /\ k \in DOMAIN calls
    /\ calls[k].op = "update_claims"
    /\ calls[k].pc = "delete"
    /\ calls' = [calls EXCEPT ![k].pc = "insert"]
    /\ UNCHANGED <<bills, bill_items, item_seq, participants, item_claims, resp>>

\* line 588: delete the participant's rows
update_claims_delete(k) ==
    /\ k \in DOMAIN calls
    /\ calls[k].op = "update_claims"
    /\ calls[k].pc = "delete"
    /\ item_claims' = DeleteClaimsOf(item_claims, calls[k].participant)
    /\ calls' = [calls EXCEPT ![k].pc = "insert"]
    /\ UNCHANGED <<bills, bill_items, item_seq, participants, resp>>

\* lines 591-597: one turn of the loop inserts one row
update_claims_insert(k) ==
    /\ k \in DOMAIN calls
    /\ calls[k].op = "update_claims"
    /\ calls[k].pc = "insert"
    /\ calls[k].todo # <<>>
    /\ item_claims' = InsertClaims(item_claims, calls[k].participant, <<Head(calls[k].todo)>>)
    /\ calls' = [calls EXCEPT ![k].todo = Tail(calls[k].todo)]
    /\ UNCHANGED <<bills, bill_items, item_seq, participants, resp>>

\* line 599: the loop is over, the request answers
update_claims_return(k) ==
    /\ k \in DOMAIN calls
    /\ calls[k].op = "update_claims"
    /\ calls[k].pc = "insert"
    /\ calls[k].todo = <<>>
    /\ resp' = Response("update_claims", 200, calls[k].bill, calls[k].arg,
                        <<Len(calls[k].item_ids)>>)
    /\ calls' = [calls EXCEPT ![k].pc = "returned"]
    /\ UNCHANGED <<bills, bill_items, item_seq, participants, item_claims>>

\* the store call of line 588 or of line 597 raises: the request stops there
\* and answers 500
update_claims_store_error(k) ==
    /\ k \in DOMAIN calls
    /\ calls[k].op = "update_claims"
    /\ calls[k].pc \in {"delete", "insert"}
    /\ calls[k].pc = "insert" => calls[k].todo # <<>>
    /\ resp' = Response("update_claims", 500, calls[k].bill, calls[k].arg, <<>>)
    /\ calls' = [calls EXCEPT ![k].pc = "failed_" \o calls[k].pc]
    /\ UNCHANGED <<bills, bill_items, item_seq, participants, item_claims>>

-----------------------------------------------------------------------------
(* parse_bill, store call by store call.  calls[k] holds the bill row the    *)
(* request fetched, the decoded answer of the model, the items its loop has  *)
(* still to insert (todo) and its position.  A store call can fail (the      *)
(* client raises); the handler catches nothing, so the request then ends     *)
(* with a 500 and what it wrote before stays.                                *)

\* lines 199-263: fetch the bill, ask the model, decode its answer
parse_bill_fetch(k, creator_token, json_ok, parsed, short_id) ==
    LET arg == <<creator_token, json_ok>> IN
    /\ k \notin DOMAIN calls
    /\ UNCHANGED <<bills, bill_items, item_seq, participants, item_claims>>
    /\ IF BillsByCreatorToken(creator_token) = {}
       THEN /\ resp' = Response("parse_bill", 404, 0, arg, <<>>)
            /\ UNCHANGED calls
       ELSE \E b \in BillsByCreatorToken(creator_token) :
            IF ~json_ok
            THEN /\ resp' = Response("parse_bill", 500, b, arg, <<>>)
                 /\ UNCHANGED calls
            ELSE /\ calls' = Extend(calls, k,
                                    [op |-> "parse_bill", pc |-> "insert",
                                     bill |-> b, fetched |-> bills[b], arg |-> arg,
                                     parsed |-> parsed, todo |-> parsed.items,
                                     bill_items |-> <<>>,
                                     new_share_token |->
                                        NewShareToken(SlugOrBill(parsed.venue), short_id)])
                 /\ UNCHANGED resp

\* lines 267-276: one turn of the loop inserts one item
parse_bill_insert(k) ==
    /\ k \in DOMAIN calls
    /\ calls[k].op = "parse_bill"
    /\ calls[k].pc = "insert"
    /\ calls[k].todo # <<>>
    /\ bill_items' = Extend(bill_items, item_seq + 1,
                            [bill_id |-> calls[k].bill,
                             name |-> Head(calls[k].todo).name,
                             price |-> Head(calls[k].todo).price])
    /\ item_seq' = item_seq + 1
    /\ calls' = [calls EXCEPT
                   ![k].todo = Tail(calls[k].todo),
                   ![k].bill_items = Append(calls[k].bill_items,
                                            [id |-> item_seq + 1,
                                             name |-> Head(calls[k].todo).name,
                                             price |-> Head(calls[k].todo).price])]
    /\ UNCHANGED <<bills, participants, item_claims, resp>>

\* lines 278-299: the loop is over; write totals and share_token, answer
parse_bill_update(k) ==
    /\ k \in DOMAIN calls
    /\ calls[k].op = "parse_bill"
    /\ calls[k].pc = "insert"
    /\ calls[k].todo = <<>>
    /\ bills' = [bills EXCEPT ![calls[k].bill].totals = calls[k].parsed.totals,
                              ![calls[k].bill].share_token = calls[k].new_share_token]
    /\ resp' = Response("parse_bill", 200, calls[k].bill, calls[k].arg,
                        <<ParsedBillResponse(calls[k].bill_items, calls[k].parsed.totals,
                                             calls[k].new_share_token)>>)
    /\ calls' = [calls EXCEPT ![k].pc = "returned"]
    /\ UNCHANGED <<bill_items, item_seq, participants, item_claims>>

\* the store call of line 275 or of line 291 raises
parse_bill_store_error(k) ==
    /\ k \in DOMAIN calls
    /\ calls[k].op = "parse_bill"
    /\ calls[k].pc = "insert"
    /\ resp' = Response("parse_bill", 500, calls[k].bill, calls[k].arg, <<>>)
    /\ calls' = [calls EXCEPT ![k].pc = "failed"]
    /\ UNCHANGED <<bills, bill_items, item_seq, participants, item_claims>>

-----------------------------------------------------------------------------
(* Split calculator (get_final_results).  A float quotient x / k is held     *)
(* exactly as an integer number of 1/Den cents; Den is a common multiple of  *)
(* every divisor the bounds allow.                                           *)

Max(a, b) == IF a >= b THEN a ELSE b

RECURSIVE Gcd(_, _)
Gcd(a, b) == IF b = 0 THEN a ELSE Gcd(b, a % b)

RECURSIVE LcmUpTo(_)
LcmUpTo(n) == IF n <= 1 THEN 1 ELSE (LcmUpTo(n - 1) * n) \div Gcd(LcmUpTo(n - 1), n)

MaxDivisor == Cardinality(ParticipantIds) * MaxClaimLen
Den == LcmUpTo(MaxDivisor)

RECURSIVE SumFn(_)
SumFn(f) ==
    IF DOMAIN f = {}
    THEN 0
    ELSE LET x == CHOOSE y \in DOMAIN f : TRUE
         IN f[x] + SumFn([y \in DOMAIN f \ {x} |-> f[y]])

\* bill.get("tax") or 0
OrZero(opt) == IF opt = None THEN 0 ELSE opt[1]

\* participants of the bill with status "done" (the query of line 819)
DoneParticipants(b) == {p \in ParticipantsOfBill(b) : participants[p].status = "done"}

\* those the loop does not skip: if not p.get("name"): continue
NamedParticipants(b) ==
    {p \in DoneParticipants(b) : participants[p].name \notin {None, Some("")}}

num_participants(b) == Cardinality(DoneParticipants(b))

tax_per_person(b) == (OrZero(bills[b].totals.tax) * Den) \div Max(1, num_participants(b))
tip_per_person(b) == (OrZero(bills[b].totals.tip) * Den) \div Max(1, num_participants(b))

\* the number of participants with a row on the item, not the number of rows
item_claim_count_distinct(item_id) ==
    Cardinality({c \in DOMAIN item_claims : c.item_id = item_id})

\* len([c for c in claims if c["item_id"] == item_id]), over the whole table
item_claim_count(item_id) == ClaimRowsOnItem(item_id)

\* what the inner loop adds to items_total for the rows of p on one item
ItemShare(b, p, item_id) ==
    IF item_id \in ItemsOfBill(b)
    THEN ClaimRows(item_id, p) *
            ((bill_items[item_id].price * Den) \div Max(1, item_claim_count(item_id)))
    ELSE 0

\* items_total that also charges every participant the price of an item
\* nobody claimed
items_total_charging_unclaimed(b, p) ==
    SumFn([i \in ItemsOfBill(b) |->
             IF item_claim_count(i) = 0 THEN bill_items[i].price * Den
                                        ELSE ItemShare(b, p, i)])

\* items_total of participant p, unrounded
items_total(b, p) ==
    SumFn([i \in {c.item_id : c \in {d \in DOMAIN item_claims : d.participant_id = p}}
             |-> ItemShare(b, p, i)])

final_total(b, p) == items_total(b, p) + tax_per_person(b) + tip_per_person(b)

(* round(x, 2): the cent nearest to x.  When x lies exactly between two cents  *)
(* the result depends on the binary float that stands for x, so either cent    *)
(* may come out; up is the set of such values that round upwards.              *)
IsTie(x) == 2 * (x % Den) = Den

Round2(x, up) ==
    LET q == x \div Den
        r == x % Den
    IN IF 2 * r < Den THEN q
       ELSE IF 2 * r > Den THEN q + 1
       ELSE IF x \in up THEN q + 1 ELSE q

Unrounded(b) ==
    {tax_per_person(b), tip_per_person(b)} \cup
    UNION {{items_total(b, p), final_total(b, p)} : p \in NamedParticipants(b)}

Ties(b) == {x \in Unrounded(b) : IsTie(x)}

FinalSplit(b, p, up) ==
    [name |-> participants[p].name[1],
     items_total |-> Round2(items_total(b, p), up),
     tax_share |-> Round2(tax_per_person(b), up),
     tip_share |-> Round2(tip_per_person(b), up),
     final_total |-> Round2(final_total(b, p), up)]

(* splits.sort(key=lambda x: x.name.lower()): str.lower and the order of     *)
(* strings, over the names of NameInputs.                                    *)
Lower(name) == IF name = "Bob" THEN "bob" ELSE name
StrRank(str) == CASE str = "" -> 0 [] str = "Bob" -> 1 [] str = "amy" -> 2 [] str = "bob" -> 3
SortKey(p) == StrRank(Lower(participants[p].name[1]))

\* the orders a sort by key can leave the named participants in (the store
\* returns rows in no stated order, so equal keys may come either way round)
SortedOrders(b) ==
    LET S == NamedParticipants(b)
        n == Cardinality(S)
    IN {o \in [1..n -> S] :
          /\ \A p \in S : \E k \in 1..n : o[k] = p
          /\ \A k \in 1..n, l \in 1..n : k < l => SortKey(o[k]) <= SortKey(o[l])}

\* FinalResultsResponse of bill b
FinalResultsResponse(b, up, order) ==
    [status |-> bills[b].status,
     totals |-> bills[b].totals,
     handles |-> bills[b].handles,
     splits |-> [k \in 1..Len(order) |-> FinalSplit(b, order[k], up)]]

\* get_final_results without its status check
get_final_results_ungated(share_token) ==
    /\ UNCHANGED <<bills, bill_items, item_seq, participants, item_claims, calls>>
    /\ IF BillsByShareToken(share_token) = {}
       THEN resp' = Response("get_final_results", 404, 0, <<share_token>>, None)
       ELSE \E b \in BillsByShareToken(share_token) :
            \E up \in SUBSET Ties(b), order \in SortedOrders(b) :
               resp' = Response("get_final_results", 200, b, <<share_token>>,
                                Some(FinalResultsResponse(b, up, order)))

(* GET /bills/share/{share_token}/final *)
get_final_results(share_token) ==
    /\ UNCHANGED <<bills, bill_items, item_seq, participants, item_claims, calls>>
    /\ IF BillsByShareToken(share_token) = {}
       THEN resp' = Response("get_final_results", 404, 0, <<share_token>>, None)
       ELSE \E b \in BillsByShareToken(share_token) :
            IF bills[b].status # "complete"
            THEN resp' = Response("get_final_results", 403, b, <<share_token>>, None)
            ELSE \E up \in SUBSET Ties(b), order \in SortedOrders(b) :
                 resp' = Response("get_final_results", 200, b, <<share_token>>,
                                  Some(FinalResultsResponse(b, up, order)))

-----------------------------------------------------------------------------
(* Inputs of the requests *)

SeqsUpTo(S, n) == UNION {[1..k -> S] : k \in 0..n}

ParsedInputs ==
    [venue : SlugifiedVenues, items : SeqsUpTo(ItemInputs, MaxItems), totals : TotalsInputs]

NumBills == Cardinality(DOMAIN bills)
NumParticipants == Cardinality(DOMAIN participants)

-----------------------------------------------------------------------------
(* Spec: the life of a bill.  The creator uploads, parses, edits, confirms    *)
(* and completes; participants join and submit; anyone reads by share token.  *)

Next ==
    \/ \E is_image \in BOOLEAN :
          /\ NumBills < Cardinality(BillIds)
          /\ upload_bill(is_image)
    \/ \E c \in CreatorTokens, json_ok \in BOOLEAN, parsed \in ParsedInputs, k \in ShortIds :
          /\ item_seq + Len(parsed.items) <= MaxItems
          /\ parse_bill(c, json_ok, parsed, k)
    \/ \E c \in CreatorTokens, i \in 1..MaxItems, r \in ItemInputs : update_item(c, i, r)
    \/ \E c \in CreatorTokens, i \in 1..MaxItems : delete_item(c, i)
    \/ \E c \in CreatorTokens, r \in TotalsInputs : update_bill_totals(c, r)
    \/ \E c \in CreatorTokens :
          /\ NumParticipants < MaxParticipants
          /\ confirm_bill(c)
    \/ \E c \in CreatorTokens, h \in HandleInputs : complete_bill(c, h)
    \/ \E t \in ShareTokens : get_bill_by_share_token(t)
    \/ \E t \in ShareTokens :
          /\ NumParticipants < MaxParticipants
          /\ join_bill(t)
    \/ \E t \in ShareTokens, p \in 1..MaxParticipants : submit_participant(t, p, "amy")
    \/ \E t \in ShareTokens : get_final_results(t)

Spec == Init /\ [][Next]_vars

-----------------------------------------------------------------------------
(* LedgerSpec: the claim ledger of one confirmed bill.  It starts where       *)
(* upload, parse and confirm leave a bill: active, with its items and the     *)
(* creator's participant row.                                                 *)

ItemAt(i) == IF i % 2 = 1 THEN [name |-> "Pizza", price |-> 2000]
                          ELSE [name |-> "Salad", price |-> 1001]

ItemRows(b, n) ==
    [i \in 1..n |-> [bill_id |-> b, name |-> ItemAt(i).name, price |-> ItemAt(i).price]]

ParsedTotals == [subtotal |-> Some(3001), tax |-> Some(300), tip |-> Some(501)]

BillRow(b, status, totals, handles) ==
    [creator_token |-> generate_token_creator(b),
     share_token |-> NewShareToken("bill", "ab12"),
     status |-> status, totals |-> totals, handles |-> handles]

LedgerTokens == {1, 2}
LedgerShareTokens == {generate_token_share(1), NewShareToken("bill", "ab12")}

LedgerInit ==
    /\ bills = [b \in {1} |-> BillRow(1, "active", ParsedTotals, NoHandles)]
    /\ item_seq \in 1..MaxItems
    /\ bill_items = ItemRows(1, item_seq)
    /\ participants = [p \in {1} |->
                         [bill_id |-> 1, status |-> "selecting",
                          is_creator |-> TRUE, name |-> None]]
    /\ item_claims = EmptyBag
    /\ resp = Response("confirm_bill", 200, 1, <<generate_token_creator(1)>>, <<1>>)
    /\ calls = <<>>

LedgerNext ==
    \/ \E t \in LedgerShareTokens :
          /\ NumParticipants < Cardinality(LedgerTokens)
          /\ join_bill(t)
    \/ \E t \in LedgerShareTokens, p \in LedgerTokens,
          ids \in SeqsUpTo(1..item_seq, MaxClaimLen) :
          update_claims(t, p, ids)
    \/ \E t \in LedgerShareTokens, p \in LedgerTokens : submit_participant(t, p, "amy")
    \/ \E c \in CreatorTokens, i \in 1..MaxItems : delete_item(c, i)

LedgerSpec == LedgerInit /\ [][LedgerNext]_vars

-----------------------------------------------------------------------------
(* SplitSpec: the split calculator.  It starts in any of the states a        *)
(* completed bill of two parsed items can be in (participants who claimed    *)
(* and did or did not submit a name, totals present or absent) and reads     *)
(* the final results.                                                        *)

\* the name participant p submits, when it submits a non-empty one
NameOf(p) == IF p % 2 = 1 THEN "Bob" ELSE "amy"

ParticipantStates(p) ==
    {[status |-> "selecting", name |-> None],
     [status |-> "done", name |-> Some("")],
     [status |-> "done", name |-> Some(NameOf(p))]}

ParticipantRows(b, f) ==
    [p \in DOMAIN f |-> [bill_id |-> b, status |-> f[p].status,
                         is_creator |-> (p = 1), name |-> f[p].name]]

\* the item_ids lists of the claims requests
SplitClaimLists == {<<>>, <<1>>, <<2>>, <<1, 2>>, <<1, 1>>}

RECURSIVE ClaimsOfAll(_, _)
ClaimsOfAll(g, P) ==
    IF P = {}
    THEN EmptyBag
    ELSE LET p == CHOOSE q \in P : TRUE
         IN InsertClaims(ClaimsOfAll(g, P \ {p}), p, g[p])

SplitInit ==
    /\ \E t \in TotalsInputs, h \in HandleInputs :
          bills = [b \in {1} |-> BillRow(1, "complete", t, h)]
    /\ item_seq = 2
    /\ bill_items = ItemRows(1, 2)
    /\ \E m \in 1..MaxParticipants :
          participants \in
             {ParticipantRows(1, f) :
                f \in {h \in [1..m -> UNION {ParticipantStates(p) : p \in 1..m}] :
                         \A p \in 1..m : h[p] \in ParticipantStates(p)}}
    /\ item_claims \in
          {ClaimsOfAll(g, DOMAIN participants) :
             g \in [DOMAIN participants -> SplitClaimLists]}
    /\ resp = Response("complete_bill", 200, 1, <<generate_token_creator(1)>>, <<>>)
    /\ calls = <<>>

SplitNext ==
    \E t \in {NewShareToken("bill", "ab12")} : get_final_results(t)

SplitSpec == SplitInit /\ [][SplitNext]_vars

-----------------------------------------------------------------------------
(* SplitEditSpec: the split calculator while the creator still deletes      *)
(* items (delete_item does not look at the bill's status).                   *)

SplitEditNext ==
    \/ \E c \in CreatorTokens, i \in 1..2 : delete_item(c, i)
    \/ \E t \in {NewShareToken("bill", "ab12")} : get_final_results(t)

SplitEditSpec == SplitInit /\ [][SplitEditNext]_vars

-----------------------------------------------------------------------------
(* SlugSpec: two creators upload and parse their bills.  The short id of    *)
(* generate_short_id(4) is drawn anew by every parse request.                *)

SlugBillIds == {1, 2}
SlugCreatorTokens == {generate_token_creator(b) : b \in SlugBillIds}
SlugShortIds == {"ab12", "zz99"}
SlugParsedInputs == [venue : SlugifiedVenues, items : {<<>>}, totals : TotalsInputs]
SlugShareTokens ==
    {generate_token_share(b) : b \in SlugBillIds} \cup
    {NewShareToken(SlugOrBill(v), k) : v \in SlugifiedVenues, k \in SlugShortIds}

SlugNext ==
    \/ \E is_image \in BOOLEAN :
          /\ NumBills < Cardinality(SlugBillIds)
          /\ upload_bill(is_image)
    \/ \E c \in SlugCreatorTokens, json_ok \in BOOLEAN, parsed \in SlugParsedInputs,
          k \in SlugShortIds :
          parse_bill(c, json_ok, parsed, k)
    \/ \E t \in SlugShareTokens : get_bill_by_share_token(t)

SlugSpec == Init /\ [][SlugNext]_vars

-----------------------------------------------------------------------------
(* CrossBillSpec: two bills in one store.  Bill 1 is complete, with two     *)
(* items and two participants who claimed and submitted their names; bill 2 *)
(* is active, with one item and its creator's participant row.  Bill 2's    *)
(* participant sends claims requests; bill 1's final results are read.      *)

CrossShareTokens == [b \in {1, 2} |-> NewShareToken("bill", IF b = 1 THEN "ab12" ELSE "zz99")]

CrossInit ==
    /\ bills = [b \in {1, 2} |->
                  [BillRow(b, IF b = 1 THEN "complete" ELSE "active", ParsedTotals, NoHandles)
                     EXCEPT !.share_token = CrossShareTokens[b]]]
    /\ item_seq = 3
    /\ bill_items = [i \in 1..3 |-> IF i <= 2 THEN ItemRows(1, 2)[i]
                                              ELSE [ItemRows(2, 3)[i] EXCEPT !.bill_id = 2]]
    /\ participants =
          [p \in 1..3 |->
             IF p <= 2
             THEN [bill_id |-> 1, status |-> "done", is_creator |-> (p = 1),
                   name |-> Some(NameOf(p))]
             ELSE [bill_id |-> 2, status |-> "selecting", is_creator |-> TRUE, name |-> None]]
    /\ item_claims \in {ClaimsOfAll(g, {1, 2}) : g \in [{1, 2} -> SplitClaimLists]}
    /\ resp = Response("confirm_bill", 200, 2, <<generate_token_creator(2)>>, <<3>>)
    /\ calls = <<>>

CrossNext ==
    \/ \E ids \in SeqsUpTo(1..3, MaxClaimLen) : update_claims(CrossShareTokens[2], 3, ids)
    \/ get_final_results(CrossShareTokens[1])

CrossBillSpec == CrossInit /\ [][CrossNext]_vars

-----------------------------------------------------------------------------
(* RaceSpec: the claims requests and name submissions of the participants   *)
(* of one active bill, served concurrently.  submit_participant stays one   *)
(* step: its two fetches read rows no request of RaceSpec adds or removes,  *)
(* and its only write is one store call.                                     *)

RaceInit ==
    /\ bills = [b \in {1} |-> BillRow(1, "active", ParsedTotals, NoHandles)]
    /\ item_seq = 2
    /\ bill_items = ItemRows(1, 2)
    /\ participants = [p \in LedgerTokens |->
                         [bill_id |-> 1, status |-> "selecting",
                          is_creator |-> (p = 1), name |-> None]]
    /\ item_claims \in {ClaimsOfAll(g, {1}) : g \in [{1} -> {<<>>, <<1>>}]}
    /\ resp = Response("join_bill", 200, 1, <<NewShareToken("bill", "ab12")>>, <<2>>)
    /\ calls = <<>>

RaceNext ==
    \/ \E k \in CallIds, p \in LedgerTokens, ids \in SplitClaimLists :
          update_claims_fetch(k, NewShareToken("bill", "ab12"), p, ids)
    \/ \E k \in CallIds : update_claims_delete(k)
    \/ \E k \in CallIds : update_claims_insert(k)
    \/ \E k \in CallIds : update_claims_return(k)
    \/ \E k \in CallIds : update_claims_store_error(k)
    \/ \E p \in LedgerTokens : submit_participant(NewShareToken("bill", "ab12"), p, "amy")

RaceSpec == RaceInit /\ [][RaceNext]_vars

-----------------------------------------------------------------------------
(* ExtractSpec: a creator uploads a bill and sends parse requests, which    *)
(* run store call by store call and can overlap or fail.                     *)

ExtractItemLists == {<<>>, <<ItemAt(1)>>, <<ItemAt(1), ItemAt(2)>>}
ExtractParsedInputs == [venue : SlugifiedVenues, items : ExtractItemLists, totals : TotalsInputs]

ExtractNext ==
    \/ \E is_image \in BOOLEAN :
          /\ NumBills < Cardinality(BillIds)
          /\ upload_bill(is_image)
    \/ \E k \in CallIds, c \in CreatorTokens, json_ok \in BOOLEAN,
          parsed \in ExtractParsedInputs, short_id \in ShortIds :
          parse_bill_fetch(k, c, json_ok, parsed, short_id)
    \/ \E k \in CallIds : parse_bill_insert(k)
    \/ \E k \in CallIds : parse_bill_update(k)
    \/ \E k \in CallIds : parse_bill_store_error(k)

ExtractSpec == Init /\ [][ExtractNext]_vars

-----------------------------------------------------------------------------
(* EditSpec: two creators upload, parse (also more than once) and edit the  *)
(* items of their bills.                                                     *)

EditItemIds == {1, 2, 3}

EditNext ==
    \/ \E is_image \in BOOLEAN :
          /\ NumBills < Cardinality(SlugBillIds)
          /\ upload_bill(is_image)
    \/ \E c \in SlugCreatorTokens, json_ok \in BOOLEAN, parsed \in ExtractParsedInputs,
          k \in ShortIds :
          /\ (item_seq + 1) .. (item_seq + Len(parsed.items)) \subseteq EditItemIds
          /\ parse_bill(c, json_ok, parsed, k)
    \/ \E c \in SlugCreatorTokens, i \in EditItemIds, r \in ItemInputs : update_item(c, i, r)
    \/ \E c \in SlugCreatorTokens, i \in EditItemIds : delete_item(c, i)

EditSpec == Init /\ [][EditNext]_vars

-----------------------------------------------------------------------------
(* Properties of the bill lifecycle (checked under Spec) *)

\* C1: no transition skips a state: a bill is created in status editing and
\* its status becomes complete only from active.
C1_NoStateSkipped ==
    [][/\ \A b \in DOMAIN bills' \ DOMAIN bills : bills'[b].status = "editing"
       /\ \A b \in DOMAIN bills :
             (bills'[b].status = "complete" /\ bills[b].status # "complete")
                => bills[b].status = "active"]_vars

\* C2: complete is terminal and nothing goes backwards: a complete bill stays
\* complete under every request, and an active bill never returns to editing.
C2_NoBackwardTransition ==
    [][\A b \in DOMAIN bills :
          /\ bills[b].status = "complete" => bills'[b].status = "complete"
          /\ bills[b].status = "active" => bills'[b].status # "editing"]_vars

\* C3: a fetch by share token that resolves to a bill in status editing answers
\* 403 with no bill data; one that resolves to an active or complete bill
\* answers 200 with that bill's data.
C3_ShareAccessGated ==
    (resp.op = "get_bill_by_share_token" /\ resp.bill # 0) =>
        IF bills[resp.bill].status = "editing"
        THEN resp.code = 403 /\ resp.body = None
        ELSE /\ bills[resp.bill].status \in {"active", "complete"}
             /\ resp.code = 200
             /\ resp.body = Some(ParticipantBillResponse(resp.bill))

C3_Witness ==
    /\ resp.op = "get_bill_by_share_token"
    /\ resp.code = 403
    /\ resp.bill \in DOMAIN bills
    /\ bills[resp.bill].status = "editing"
    /\ ItemsOfBill(resp.bill) # {}

\* C4: the final results are returned only for a complete bill; for a bill in
\* status editing or active the request answers 403 and carries no split.
C4_FinalOnlyWhenComplete ==
    (resp.op = "get_final_results" /\ resp.bill # 0) =>
        IF bills[resp.bill].status = "complete"
        THEN resp.code = 200 /\ resp.body # None
        ELSE /\ bills[resp.bill].status \in {"editing", "active"}
             /\ resp.code = 403
             /\ resp.body = None

C4_Witness ==
    /\ resp.op = "get_final_results"
    /\ resp.code = 200
    /\ bills[resp.bill].status = "complete"
    /\ Len(resp.body[1].splits) >= 1

-----------------------------------------------------------------------------
(* Properties of the claim ledger (checked under LedgerSpec) *)

\* the participant row a claims request resolved, given its response
ClaimsRequestParticipant(r) == ParticipantsByToken(r.arg[2], r.bill)

\* C5: a claims request that resolves to a participant whose status is done
\* answers 403 and leaves the table of claims as it was.
C5_DoneParticipantLocked ==
    [][(/\ resp'.op = "update_claims"
        /\ resp'.bill # 0
        /\ \E p \in ClaimsRequestParticipant(resp') : participants[p].status = "done")
          => (resp'.code = 403 /\ item_claims' = item_claims)]_vars

C5_Witness ==
    /\ resp.op = "update_claims"
    /\ resp.code = 403
    /\ \E p \in ClaimsRequestParticipant(resp) :
          /\ participants[p].status = "done"
          /\ \E i \in 1..item_seq : ClaimRows(i, p) > 0
          /\ \E i \in 1..item_seq : ClaimRows(i, p) # Cardinality({k \in DOMAIN resp.arg[3] : resp.arg[3][k] = i})

\* C6: replacing claims is idempotent: a successful claims request repeated at
\* once with the same participant and the same item_ids succeeds again and
\* leaves the table of claims as the first call left it.
C6_ReplaceClaimsIdempotent ==
    [][(/\ resp.op = "update_claims" /\ resp.code = 200
        /\ resp'.op = "update_claims"
        /\ resp'.arg = resp.arg
        /\ resp'.bill = resp.bill)
          => (resp'.code = 200 /\ item_claims' = item_claims)]_vars

C6_Witness ==
    /\ resp.op = "update_claims"
    /\ resp.code = 200
    /\ Len(resp.arg[3]) >= 1
    /\ \E p \in ClaimsRequestParticipant(resp) :
          /\ participants[p].status = "selecting"
          /\ \A i \in 1..item_seq :
                ClaimRows(i, p) = Cardinality({k \in DOMAIN resp.arg[3] : resp.arg[3][k] = i})
          /\ \E q \in DOMAIN participants \ {p}, i \in 1..item_seq : ClaimRows(i, q) > 0

\* C7: the table of claims holds at most one row per (participant, item) pair.
C7_OneRowPerPair ==
    \A c \in DOMAIN item_claims : item_claims[c] <= 1

\* C8: deleting an item cascades: right after a successful delete_item no row
\* of the table of claims references the deleted item.
C8_DeleteItemCascades ==
    [][(resp'.op = "delete_item" /\ resp'.code = 200)
          => \A c \in DOMAIN item_claims' : c.item_id # resp'.arg[2]]_vars

-----------------------------------------------------------------------------
(* Properties of the split calculator (checked under SplitSpec) *)

Abs(x) == IF x < 0 THEN -x ELSE x

\* the participants with a row on the item
Claimants(item_id) == {c.participant_id : c \in {d \in DOMAIN item_claims : d.item_id = item_id}}

\* what the returned splits of bill b hold of the item, in 1/Den cents
AllocatedToSplits(b, item_id) ==
    SumFn([p \in NamedParticipants(b) |-> ItemShare(b, p, item_id)])

\* C9, as stated: in the final split of a complete bill the shares of an item
\* with k > 0 claimants, summed over the returned splits, are within k cents
\* of the item's price.
C9_ItemSharesSumToPrice ==
    (resp.op = "get_final_results" /\ resp.code = 200) =>
        \A i \in ItemsOfBill(resp.bill) :
           Claimants(i) # {} =>
              Abs(AllocatedToSplits(resp.bill, i) - bill_items[i].price * Den)
                 <= Cardinality(Claimants(i)) * Den

\* C9, amended: the same, for the items whose claimants are all among the
\* returned splits (participants of the bill with status done and a name).
C9_ItemSharesSumToPriceWhenAllEligible ==
    (resp.op = "get_final_results" /\ resp.code = 200) =>
        \A i \in ItemsOfBill(resp.bill) :
           (Claimants(i) # {} /\ Claimants(i) \subseteq NamedParticipants(resp.bill)) =>
              Abs(AllocatedToSplits(resp.bill, i) - bill_items[i].price * Den)
                 <= Cardinality(Claimants(i)) * Den

C9_Witness ==
    /\ resp.op = "get_final_results"
    /\ resp.code = 200
    /\ \E i \in ItemsOfBill(resp.bill) :
          /\ Cardinality(Claimants(i)) >= 2
          /\ Claimants(i) \subseteq NamedParticipants(resp.bill)
          /\ item_claim_count(i) = 3
          /\ Len(resp.body[1].splits) = Cardinality(NamedParticipants(resp.bill))

\* C10: in the final split of a complete bill with n >= 1 eligible
\* participants the tax_share values of the returned splits sum to the bill's
\* tax within n cents, and the tip_share values to the bill's tip.
C10_TaxTipSharesSumToTotals ==
    (resp.op = "get_final_results" /\ resp.code = 200) =>
        LET b == resp.bill
            n == Cardinality(NamedParticipants(b))
            splits == resp.body[1].splits
        IN n >= 1 =>
              /\ Abs(SumFn([k \in 1..Len(splits) |-> splits[k].tax_share])
                     - OrZero(bills[b].totals.tax)) <= n
              /\ Abs(SumFn([k \in 1..Len(splits) |-> splits[k].tip_share])
                     - OrZero(bills[b].totals.tip)) <= n

\* tax / n + tip / n with n the number of eligible participants (status done
\* and a non-empty name), at least 1, in 1/Den cents
EligibleTaxTipShare(b) ==
    ((OrZero(bills[b].totals.tax) + OrZero(bills[b].totals.tip)) * Den)
       \div Max(1, Cardinality(NamedParticipants(b)))

\* C11: in the final split of a complete bill every eligible participant has a
\* split whose final_total is, to the cent, the sum over the items it claimed
\* of price / number of claims on the item, plus tax / n and tip / n, where n
\* is the number of eligible participants and an absent tax or tip counts 0.
C11_FinalTotalFormula ==
    (resp.op = "get_final_results" /\ resp.code = 200) =>
        LET b == resp.bill
            splits == resp.body[1].splits
        IN \A p \in NamedParticipants(b) :
              \E k \in 1..Len(splits) :
                 /\ splits[k].name = participants[p].name[1]
                 /\ Abs(splits[k].final_total * Den
                        - (items_total(b, p) + EligibleTaxTipShare(b))) <= Den

\* the bodies get_final_results can return for bill b in the current state
FinalResults(b) ==
    {FinalResultsResponse(b, up, order) : up \in SUBSET Ties(b), order \in SortedOrders(b)}

\* C12: an item with no claims contributes 0 to every items_total and
\* final_total: when an item nobody claimed is deleted from the bill, the
\* unrounded totals of every participant and the final results the bill can
\* return are the same without the item as with it.
C12_UnclaimedItemContributesNothing ==
    [][\A b \in BillIds, i \in DOMAIN bill_items :
          (/\ resp'.op = "delete_item"
           /\ resp'.code = 200
           /\ resp'.bill = b
           /\ resp'.arg[2] = i
           /\ item_claim_count(i) = 0)
             => /\ \A p \in ParticipantsOfBill(b) :
                      /\ items_total(b, p)' = items_total(b, p)
                      /\ final_total(b, p)' = final_total(b, p)
                /\ FinalResults(b)' = FinalResults(b)]_vars

C12_Witness ==
    /\ resp.op = "delete_item"
    /\ resp.code = 200
    /\ item_claim_count(resp.arg[2]) = 0
    /\ ItemsOfBill(resp.bill) # {}
    /\ \E p \in NamedParticipants(resp.bill) : items_total(resp.bill, p) > 0
    /\ \E r \in FinalResults(resp.bill) : Len(r.splits) >= 2

-----------------------------------------------------------------------------
(* Properties of confirming and joining (checked under Spec) *)

\* the participants of bill b with is_creator true
CreatorParticipants(b) == {p \in ParticipantsOfBill(b) : participants[p].is_creator}

\* C13: a bill in status active or complete has exactly one participant with
\* is_creator true, and a bill in status editing has none.
C13_OneCreatorParticipant ==
    \A b \in DOMAIN bills :
       Cardinality(CreatorParticipants(b)) =
          IF bills[b].status \in {"active", "complete"} THEN 1 ELSE 0

\* C14: a join that resolves to an active bill answers 200 and adds exactly
\* one participant of that bill, not the creator, in status selecting; a join
\* that resolves to a bill in status editing or complete answers 403 and adds
\* none; and no other request adds a participant that is not the creator.
C14_JoinOnlyWhenActive ==
    [][/\ (resp'.op = "join_bill" /\ resp'.bill # 0) =>
             IF bills[resp'.bill].status = "active"
             THEN /\ resp'.code = 200
                  /\ \E p \in ParticipantIds \ DOMAIN participants :
                        participants' =
                           Extend(participants, p,
                                  [bill_id |-> resp'.bill, status |-> "selecting",
                                   is_creator |-> FALSE, name |-> None])
             ELSE /\ bills[resp'.bill].status \in {"editing", "complete"}
                  /\ resp'.code = 403
                  /\ participants' = participants
       /\ \A p \in DOMAIN participants' \ DOMAIN participants :
             ~participants'[p].is_creator =>
                /\ resp'.op = "join_bill"
                /\ bills[participants'[p].bill_id].status = "active"]_vars

C14_Witness ==
    /\ resp.op = "join_bill"
    /\ resp.code = 403
    /\ resp.bill \in DOMAIN bills
    /\ bills[resp.bill].status = "complete"
    /\ ParticipantsOfBill(resp.bill) # {}

-----------------------------------------------------------------------------
(* Properties of extraction (checked under Spec) *)

\* C17: a parse request that resolves to a bill in status active or complete
\* adds no item to the bill and leaves its share_token as it was.
C17_NoExtractionAfterEditing ==
    [][\A b \in DOMAIN bills :
          (/\ resp'.op = "parse_bill"
           /\ resp'.bill = b
           /\ bills[b].status \in {"active", "complete"})
             => /\ ItemsOfBill(b)' = ItemsOfBill(b)
                /\ bills'[b].share_token = bills[b].share_token]_vars

\* C18: no two bills hold the same share_token at the same time.
C18_ShareSlugUnique ==
    \A b1 \in DOMAIN bills, b2 \in DOMAIN bills :
       b1 # b2 => bills[b1].share_token # bills[b2].share_token

-----------------------------------------------------------------------------
(* Properties of a store with several bills (SlugSpec, CrossBillSpec) *)

\* C19: a claims request of a participant of one bill changes no amount of
\* any other bill: the final results every other bill can return are the same
\* after the request as before it.
C19_ClaimsOfOtherBillsChangeNothing ==
    [][\A b \in DOMAIN bills :
          (resp'.op = "update_claims" /\ resp'.code = 200 /\ resp'.bill # b)
             => FinalResults(b)' = FinalResults(b)]_vars

-----------------------------------------------------------------------------
(* Properties of concurrent requests (checked under RaceSpec) *)

\* the items participant p has a row on
ClaimSetOf(p) == {c.item_id : c \in {d \in DOMAIN item_claims : d.participant_id = p}}

\* the elements of a sequence
Range(seq) == {seq[i] : i \in DOMAIN seq}

\* C15: once two claims requests of the same participant have both answered,
\* the set of items the participant has a row on is the item id set of one of
\* the two requests.
C15_LastWriteWins ==
    \A k1 \in DOMAIN calls, k2 \in DOMAIN calls :
       (/\ k1 # k2
        /\ calls[k1].op = "update_claims" /\ calls[k1].pc = "returned"
        /\ calls[k2].op = "update_claims" /\ calls[k2].pc = "returned"
        /\ calls[k1].participant = calls[k2].participant)
          => ClaimSetOf(calls[k1].participant)
                \in {Range(calls[k1].item_ids), Range(calls[k2].item_ids)}

\* C20: no step deletes or inserts a claim row of a participant whose stored
\* status is done.
C20_NoClaimChangeAfterDone ==
    [][\A p \in DOMAIN participants :
          participants[p].status = "done" =>
             \A i \in 1..item_seq : ClaimRows(i, p)' = ClaimRows(i, p)]_vars

-----------------------------------------------------------------------------
(* Properties of extraction as a sequence of store calls (ExtractSpec) *)

\* C16: in no state has a parse request inserted some or all of its items
\* while the bill's totals and share_token are still the values the bill had
\* when the request fetched it, whether the request is still running or has
\* failed.
C16_ExtractionIsOneUpdate ==
    \A k \in DOMAIN calls :
       (/\ calls[k].op = "parse_bill"
        /\ calls[k].pc # "returned"
        /\ Len(calls[k].todo) < Len(calls[k].parsed.items))
          => ~(/\ bills[calls[k].bill].totals = calls[k].fetched.totals
               /\ bills[calls[k].bill].share_token = calls[k].fetched.share_token)

-----------------------------------------------------------------------------
(* Properties of one claims request, store call by store call (RaceSpec) *)

\* request k is a claims request and the only request of its participant
SoleClaimsCall(k) ==
    /\ calls[k].op = "update_claims"
    /\ \A j \in DOMAIN calls \ {k} : calls[j].participant # calls[k].participant

\* request k has performed its delete
HasDeleted(k) == calls[k].pc \in {"insert", "returned", "failed_insert"}

\* the item ids request k has inserted so far
Inserted(k) == SubSeq(calls[k].item_ids, 1, Len(calls[k].item_ids) - Len(calls[k].todo))

\* C21: a claims request that is the only one of its participant leaves the
\* participant's rows as they were until its delete, also when it stops
\* there; from its delete on, whether it goes on, answers or stops at a failed
\* insert, the participant's rows are exactly the rows it has inserted so far,
\* all on items of the request and none left of the old set.
C21_StoppedReplaceIsOldOrPartOfNew ==
    [][\A k \in DOMAIN calls', p \in DOMAIN participants :
          (SoleClaimsCall(k)' /\ calls'[k].participant = p) =>
             IF HasDeleted(k)'
             THEN /\ ClaimSetOf(p)' \subseteq Range(calls'[k].item_ids)
                  /\ \A i \in 1..item_seq :
                        ClaimRows(i, p)' =
                           Cardinality({n \in DOMAIN Inserted(k)' : Inserted(k)'[n] = i})
             ELSE \A i \in 1..item_seq : ClaimRows(i, p)' = ClaimRows(i, p)]_vars

C21_Witness ==
    \E k \in DOMAIN calls :
       /\ SoleClaimsCall(k)
       /\ calls[k].pc = "failed_insert"
       /\ Inserted(k) # <<>>
       /\ calls[k].todo # <<>>
       /\ ClaimSetOf(calls[k].participant) # {}
       /\ \E j \in DOMAIN calls \ {k} : calls[j].pc = "insert"

-----------------------------------------------------------------------------
(* Properties of parsing and editing items (checked under EditSpec) *)

\* C22: a parse request that resolves to a bill and whose model answer is not
\* valid JSON answers 500 and changes nothing in the store: no item is
\* inserted and the bill's totals and share_token stay.
C22_InvalidJsonChangesNothing ==
    [][(resp'.op = "parse_bill" /\ resp'.bill # 0 /\ ~resp'.arg[2])
          => /\ resp'.code = 500
             /\ UNCHANGED <<bills, bill_items, item_seq, participants, item_claims>>]_vars

C22_Witness ==
    /\ resp.op = "parse_bill"
    /\ resp.code = 500
    /\ ~resp.arg[2]
    /\ ItemsOfBill(resp.bill) # {}
    /\ bills[resp.bill].totals # NoTotals
    /\ bills[resp.bill].share_token = NewShareToken("joes-pizza-grill", "ab12")

\* C23: a successful parse request appends: every item the bill had is still
\* there with its id, name and price, the items of the response are added
\* under new ids, so the bill owns as many items more as the call returned,
\* and the bill's totals and share_token are those of this call.
C23_ParseAppends ==
    [][\A b \in DOMAIN bills :
          (resp'.op = "parse_bill" /\ resp'.code = 200 /\ resp'.bill = b) =>
             LET items == resp'.body[1].items IN
             /\ \A i \in ItemsOfBill(b) : i \in ItemsOfBill(b)' /\ bill_items'[i] = bill_items[i]
             /\ Cardinality(ItemsOfBill(b)') = Cardinality(ItemsOfBill(b)) + Len(items)
             /\ \A j \in 1..Len(items) :
                   /\ items[j].id \notin DOMAIN bill_items
                   /\ bill_items'[items[j].id] =
                         [bill_id |-> b, name |-> items[j].name, price |-> items[j].price]
             /\ bills'[b].totals = resp'.body[1].totals
             /\ bills'[b].share_token = resp'.body[1].share_token]_vars

C23_Witness ==
    /\ resp.op = "parse_bill"
    /\ resp.code = 200
    /\ Len(resp.body[1].items) >= 1
    /\ Cardinality(ItemsOfBill(resp.bill)) > Len(resp.body[1].items)
    /\ bills[resp.bill].totals = NoTotals
    /\ \E i \in ItemsOfBill(resp.bill) : bill_items[i].price = 1001

\* C24: an update_item or delete_item request whose item id is not an item of
\* the creator's bill (no such item, or an item of another bill) answers 404
\* and leaves the table of items as it was; and no such request changes or
\* removes an item of a bill other than the creator's.
C24_ForeignItemNotFound ==
    [][\A b \in DOMAIN bills :
          (resp'.op \in {"update_item", "delete_item"} /\ resp'.bill = b) =>
             /\ resp'.arg[2] \notin ItemsOfBill(b) =>
                   (resp'.code = 404 /\ bill_items' = bill_items)
             /\ \A i \in DOMAIN bill_items :
                   bill_items[i].bill_id # b =>
                      (i \in DOMAIN bill_items' /\ bill_items'[i] = bill_items[i])]_vars

C24_Witness ==
    /\ resp.op = "update_item"
    /\ resp.code = 404
    /\ resp.bill # 0
    /\ resp.arg[2] \in DOMAIN bill_items
    /\ bill_items[resp.arg[2]].bill_id # resp.bill

-----------------------------------------------------------------------------
(* Frame of a claims request (checked under RaceSpec) *)

\* the number of rows c in a table of claims
Rows(claims, c) == IF c \in DOMAIN claims THEN claims[c] ELSE 0

\* the participants whose claims request took a step
SteppingParticipants ==
    {calls'[k].participant :
       k \in {j \in DOMAIN calls' : j \notin DOMAIN calls \/ calls'[j] # calls[j]}}

\* C25: a step of a claims request (its fetch, its delete, an insert, its
\* answer, or its stop at a failed store call) changes no bill, no item, no
\* participant row and no claim row of a participant other than the one the
\* request is for; a request that answers 403 or 404 changes no claim row at
\* all.
C25_ReplaceClaimsFrame ==
    [][(calls' # calls \/ resp'.op = "update_claims") =>
          /\ UNCHANGED <<bills, bill_items, item_seq, participants>>
          /\ \A c \in DOMAIN item_claims \cup DOMAIN item_claims' :
                Rows(item_claims', c) # Rows(item_claims, c)
                   => c.participant_id \in SteppingParticipants
          /\ (resp' # resp /\ resp'.code \in {403, 404}) => item_claims' = item_claims]_vars

C25_Witness ==
    \E k \in DOMAIN calls :
       /\ calls[k].op = "update_claims"
       /\ calls[k].pc = "insert"
       /\ calls[k].todo = <<>>
       /\ calls[k].item_ids # <<>>
       /\ \E q \in DOMAIN participants \ {calls[k].participant} :
             /\ participants[q].status = "done"
             /\ ClaimSetOf(q) # {}
             /\ ClaimSetOf(q) # ClaimSetOf(calls[k].participant)

====
